---- MODULE Spec2Model ----
(***************************************************************************)
(* A model of get-next-versions: the classification of conventional       *)
(* commits, the attribution of commits to the configured packages and the *)
(* resolution of each package's next version (checkVersions).             *)
(*                                                                         *)
(* Strings are TLA+ strings; TLC evaluates Len, SubSeq, Head, Tail and \o  *)
(* on them, so every conversion of the code (toLowerCase, split, Number,   *)
(* template literals, the regular expressions) is computed character by    *)
(* character as the code computes it.                                      *)
(***************************************************************************)
EXTENDS Integers, Sequences, FiniteSets, TLC

(***************************************************************************)
(* Bounds of the model.                                                    *)
(***************************************************************************)
\* the largest component of a current version drawn for createVersion
MaxVer == 10
\* the longest message list drawn for determineVersionChange
MaxMsgs == 2
\* the most commits a repository holds on top of its initial commit
MaxCommits == 2
\* the largest number of tags a repository of the tag lookups holds
MaxTags == 3

(***************************************************************************)
(* The state: the calls of the exported pure functions, the inputs of a    *)
(* run, and the run of checkVersions.                                      *)
(***************************************************************************)
VARIABLES
  fn,          \* the function called: "createVersion", "classify", "determineVersionChange",
               \* "fileMatchesDependency", or "none"
  fnPc,        \* "idle" | "called" | "returned"
  cvCurrent,   \* createVersion: currentVersion
  cvChanges,   \* createVersion: changes
  cvResult,    \* createVersion: the returned string
  ccMessage,   \* isCommitAnyRelevantConvention: commit
  ccResult,    \* isCommitAnyRelevantConvention: the returned object
  dvCommits,   \* determineVersionChange: commits
  dvResult,    \* determineVersionChange: the returned VersionChanges
  dmFile,      \* the dependsOn test of checkVersions: file
  dmDep,       \* the dependsOn test of checkVersions: dep
  dmResult     \* the dependsOn test of checkVersions: does the file match?

fnVars ==
  <<fn, fnPc, cvCurrent, cvChanges, cvResult, ccMessage, ccResult, dvCommits, dvResult,
    dmFile, dmDep, dmResult>>

VARIABLES
  configFile,  \* release-config.json: [kind, versionedPackages, nonScopeBehavior]
  args,        \* process.argv.slice(2), as the set of its flags
  history,     \* the commits reachable from HEAD, newest first: [hash, subject, files]
  tags,        \* the tags: [name, age], age the number of commits newer than the tagged one
  failingLogs  \* the commit ranges `git log` exits non-zero for

VARIABLES
  pc,                 \* the position of checkVersions
  config,             \* the loaded configuration
  jsonOutput,
  packageChanges,     \* Map<Package, CommitInfo[]>, its entries in insertion order
  versionUpdates,     \* Map<Package, VersionUpdate>, its entries in insertion order
  pkgIdx,             \* the index of the package of the running loop
  lastTag,            \* checkVersions' lastTag of the package in work ("" for undefined)
  commits,            \* the commits of the package in work
  commitIdx,          \* the index of the commit in work
  commitsForPackage,  \* the commits attributed so far to the package in work
  stdout,             \* what output() printed
  stderr,             \* the console.error and console.warn messages, in order
  exitCode            \* the code process.exit was called with, -1 before

VARIABLES
  gitPc,              \* "idle" | "ready": may the tag lookups be called?
  gitPrefix,          \* the tag prefix the lookups are called with
  gitLastTag,         \* the result of getLastTag(gitPrefix) ("" for undefined)
  gitCurrentVersion,  \* the result of getCurrentVersion(gitPrefix)
  gitCommitRange      \* the result of getCommitRange(gitPrefix)

VARIABLES
  cliOptions,         \* the options output is called with: [createTags]
  tagCommands,        \* the git tag and git push commands of the last call that ran any
  keysRead,           \* the keys prompt() has read in the call in work, in order
  calls,              \* the number of calls of checkVersions that have returned
  previousCall        \* of the call before: its maps, its configuration file and the
                      \* commands of its output

envVars == <<configFile, args, history, tags, failingLogs>>
tagVars == <<cliOptions, tagCommands, keysRead, calls, previousCall>>
gitVars == <<gitPc, gitPrefix, gitLastTag, gitCurrentVersion, gitCommitRange>>
runVars ==
  <<pc, config, jsonOutput, packageChanges, versionUpdates, pkgIdx, lastTag, commits,
    commitIdx, commitsForPackage, stdout, stderr, exitCode>>

(***************************************************************************)
(* String primitives of the JavaScript runtime.                            *)
(***************************************************************************)
\* the character at index i of s (from 1), "" outside the string
CharAt(s, i) == IF 1 <= i /\ i <= Len(s) THEN SubSeq(s, i, i) ELSE ""

DropFirst(s, n) == SubSeq(s, n + 1, Len(s))

StartsWith(s, p) == Len(s) >= Len(p) /\ SubSeq(s, 1, Len(p)) = p

Includes(s, sub) ==
  \E i \in 1..(Len(s) - Len(sub) + 1) : SubSeq(s, i, i + Len(sub) - 1) = sub

\* the index of the first occurrence of the character c in s at or after i,
\* 0 when absent
RECURSIVE IndexFrom(_, _, _)
IndexFrom(s, c, i) ==
  IF i > Len(s) THEN 0
  ELSE IF SubSeq(s, i, i) = c THEN i
  ELSE IndexFrom(s, c, i + 1)

IndexOfChar(s, c) == IndexFrom(s, c, 1)

UpperLetters == "ABCDEFGHIJKLMNOPQRSTUVWXYZ"
LowerLetters == "abcdefghijklmnopqrstuvwxyz"
Digits == "0123456789"

LowerLetterSet == {SubSeq(LowerLetters, i, i) : i \in 1..Len(LowerLetters)}
DigitSet == {SubSeq(Digits, i, i) : i \in 1..Len(Digits)}
LowerOfUpper ==
  [c \in {SubSeq(UpperLetters, i, i) : i \in 1..Len(UpperLetters)} |->
     CharAt(LowerLetters, IndexOfChar(UpperLetters, c))]

IsLowerLetter(c) == c \in LowerLetterSet
IsDigit(c) == c \in DigitSet
IsSpace(c) == c \in {" ", "\t", "\n"}

LowerChar(c) == IF c \in DOMAIN LowerOfUpper THEN LowerOfUpper[c] ELSE c

RECURSIVE ToLowerCase(_)
ToLowerCase(s) ==
  IF s = "" THEN "" ELSE LowerChar(Head(s)) \o ToLowerCase(Tail(s))

RECURSIVE TrimStart(_)
TrimStart(s) ==
  IF s # "" /\ IsSpace(Head(s)) THEN TrimStart(Tail(s)) ELSE s

RECURSIVE TrimEnd(_)
TrimEnd(s) ==
  IF s # "" /\ IsSpace(CharAt(s, Len(s)))
  THEN TrimEnd(SubSeq(s, 1, Len(s) - 1))
  ELSE s

Trim(s) == TrimEnd(TrimStart(s))

\* String.prototype.split for a one-character separator
RECURSIVE Split(_, _)
Split(s, sep) ==
  LET i == IndexOfChar(s, sep)
  IN  IF i = 0 THEN <<s>>
      ELSE <<SubSeq(s, 1, i - 1)>> \o Split(DropFirst(s, i), sep)

\* String.prototype.replace(pattern, "") for a string pattern: the first
\* occurrence of the pattern is removed
ReplaceFirst(s, pat) ==
  IF ~Includes(s, pat) THEN s
  ELSE LET i == CHOOSE k \in 1..(Len(s) - Len(pat) + 1) :
                  /\ SubSeq(s, k, k + Len(pat) - 1) = pat
                  /\ \A j \in 1..(k - 1) : SubSeq(s, j, j + Len(pat) - 1) # pat
       IN  SubSeq(s, 1, i - 1) \o DropFirst(s, i + Len(pat) - 1)

(***************************************************************************)
(* JavaScript numbers as createVersion meets them: an integer, NaN, or the *)
(* undefined of a missing array element.  The integers of the model stay   *)
(* far below 2^53, where a double is exact.                                *)
(***************************************************************************)
JSNum(n) == [k |-> "num", v |-> n]
JSNaN == [k |-> "nan", v |-> 0]
JSUndefined == [k |-> "undef", v |-> 0]

DigitValue(c) == IndexOfChar(Digits, c) - 1

AllDigits(s) == \A i \in 1..Len(s) : IsDigit(CharAt(s, i))

RECURSIVE DecimalValue(_)
DecimalValue(s) ==
  IF s = "" THEN 0
  ELSE 10 * DecimalValue(SubSeq(s, 1, Len(s) - 1)) + DigitValue(CharAt(s, Len(s)))

\* Number(s): the empty string is 0, a run of digits is its value, any other
\* text of the model's tag names is NaN
Number(s) == IF AllDigits(s) THEN JSNum(DecimalValue(s)) ELSE JSNaN

\* x + 1 on a JavaScript value
JSPlusOne(x) == IF x.k = "num" THEN JSNum(x.v + 1) ELSE JSNaN

RECURSIVE NatToString(_)
NatToString(n) ==
  IF n < 10 THEN CharAt(Digits, n + 1)
  ELSE NatToString(n \div 10) \o CharAt(Digits, (n % 10) + 1)

\* `${x}` on a JavaScript value
JSToString(x) ==
  CASE x.k = "num" -> NatToString(x.v)
    [] x.k = "nan" -> "NaN"
    [] OTHER -> "undefined"

(***************************************************************************)
(* versions.ts                                                             *)
(***************************************************************************)
\* the length of a match of (\([^)]+\)) at the start of r, 0 without a match
ScopeGroupLen(r) ==
  IF ~StartsWith(r, "(") THEN 0
  ELSE LET j == IndexOfChar(r, ")")
       IN  IF j >= 3 THEN j ELSE 0

\* breakingChangeRegex without its optional scope group: /^(feat|fix)!:/
breakingChangeRegexNoScope(s) ==
  \E t \in {"feat", "fix"} : StartsWith(s, t \o "!:")

\* /^(feat|fix)(\([^)]+\))?!:/.test(s)
breakingChangeRegex(s) ==
  \E t \in {"feat", "fix"} :
    /\ StartsWith(s, t)
    /\ LET r == DropFirst(s, Len(t))
       IN  StartsWith(DropFirst(r, ScopeGroupLen(r)), "!:")

NotRelevant == [isRelevant |-> FALSE, type |-> "undefined"]
Relevant(t) == [isRelevant |-> TRUE, type |-> t]

\* isCommitAnyRelevantConvention testing the message as written, without
\* commit.toLowerCase()
isCommitAnyRelevantConventionCaseSensitive(commit) ==
  IF Includes(commit, "breaking change") \/ breakingChangeRegex(commit)
  THEN Relevant("major")
  ELSE IF StartsWith(commit, "feat") THEN Relevant("minor")
  ELSE IF StartsWith(commit, "fix") THEN Relevant("patch")
  ELSE NotRelevant

\* isCommitAnyRelevantConvention with the type tests ahead of the test for
\* a breaking change
isCommitAnyRelevantConventionTypeFirst(commit) ==
  LET commitMessage == ToLowerCase(commit)
  IN  IF StartsWith(commitMessage, "feat") /\ ~breakingChangeRegex(commitMessage)
        THEN Relevant("minor")
      ELSE IF StartsWith(commitMessage, "fix") /\ ~breakingChangeRegex(commitMessage)
        THEN Relevant("patch")
      ELSE IF Includes(commitMessage, "breaking change")
              \/ breakingChangeRegex(commitMessage)
        THEN Relevant("major")
      ELSE NotRelevant

isCommitAnyRelevantConvention(commit) ==
  LET commitMessage == ToLowerCase(commit)
  IN  IF Includes(commitMessage, "breaking change")
         \/ breakingChangeRegex(commitMessage)
      THEN Relevant("major")
      ELSE IF StartsWith(commitMessage, "feat") THEN Relevant("minor")
      ELSE IF StartsWith(commitMessage, "fix") THEN Relevant("patch")
      ELSE NotRelevant

NoChanges == [major |-> FALSE, minor |-> FALSE, patch |-> FALSE]

RECURSIVE determineVersionChangeFrom(_, _)
determineVersionChangeFrom(changes, messages) ==
  IF messages = <<>> THEN changes
  ELSE LET message == ToLowerCase(Head(messages))
           relevant == isCommitAnyRelevantConvention(message)
           next == IF ~relevant.isRelevant THEN changes
                   ELSE IF relevant.type = "major"
                     THEN [changes EXCEPT !.major = TRUE]
                   ELSE IF relevant.type = "minor"
                     THEN [changes EXCEPT !.minor = TRUE]
                   ELSE IF relevant.type = "patch"
                     THEN [changes EXCEPT !.patch = TRUE]
                   ELSE changes
       IN  determineVersionChangeFrom(next, Tail(messages))

\* determineVersionChange in which a major verdict clears the other flags
determineVersionChangeExclusive(messages) ==
  LET changes == determineVersionChangeFrom(NoChanges, messages)
  IN  IF changes.major
      THEN [major |-> TRUE, minor |-> FALSE, patch |-> FALSE]
      ELSE changes

\* determineVersionChange that never sets the patch flag
determineVersionChangeNoPatch(messages) ==
  [determineVersionChangeFrom(NoChanges, messages) EXCEPT !.patch = FALSE]

determineVersionChange(messages) == determineVersionChangeFrom(NoChanges, messages)

\* the i-th element of currentVersion.split(".").map(Number)
VersionPart(parts, i) ==
  IF i <= Len(parts) THEN Number(parts[i]) ELSE JSUndefined

\* createVersion that bumps without resetting the lower components
createVersionNoReset(currentVersion, changes) ==
  LET parts == Split(currentVersion, ".")
      major == VersionPart(parts, 1)
      minor == VersionPart(parts, 2)
      patch == VersionPart(parts, 3)
  IN  IF changes.major
        THEN JSToString(JSPlusOne(major)) \o "." \o JSToString(minor) \o "."
               \o JSToString(patch)
      ELSE IF changes.minor
        THEN JSToString(major) \o "." \o JSToString(JSPlusOne(minor)) \o "."
               \o JSToString(patch)
      ELSE IF changes.patch
        THEN JSToString(major) \o "." \o JSToString(minor) \o "."
               \o JSToString(JSPlusOne(patch))
      ELSE currentVersion

createVersion(currentVersion, changes) ==
  LET parts == Split(currentVersion, ".")
      major == VersionPart(parts, 1)
      minor == VersionPart(parts, 2)
      patch == VersionPart(parts, 3)
  IN  IF changes.major
        THEN JSToString(JSPlusOne(major)) \o ".0.0"
      ELSE IF changes.minor
        THEN JSToString(major) \o "." \o JSToString(JSPlusOne(minor)) \o ".0"
      ELSE IF changes.patch
        THEN JSToString(major) \o "." \o JSToString(minor) \o "."
               \o JSToString(JSPlusOne(patch))
      ELSE currentVersion

(***************************************************************************)
(* The exported pure functions, called on their own (the library surface   *)
(* and the tests of tests/index.test.js call them this way).               *)
(***************************************************************************)
FormatVersion(M, m, p) ==
  NatToString(M) \o "." \o NatToString(m) \o "." \o NatToString(p)

VersionChangeSets == [major : BOOLEAN, minor : BOOLEAN, patch : BOOLEAN]

\* current versions handed to createVersion: every triad within the bound,
\* and tag remainders that are no triad
MalformedVersions == {"1.2", "v1.2.3", "1.2.3-rc.1", ""}
VersionInputs ==
  {FormatVersion(M, m, p) : M \in 0..MaxVer, m \in 0..MaxVer, p \in 0..MaxVer}
    \cup MalformedVersions

\* commit messages handed to the classifier: a type token, a scope part, a
\* breaking mark, a colon and a subject, each possibly absent or malformed
MsgTypes == {"feat", "fix", "chore", "feature", "fixup", "Feat", "FIX", "", "breaking change"}
MsgScopes == {"", "(ui)", "(UI)", "()", "(ui", "(a)(b)"}
MsgBangs == {"", "!"}
MsgColons == {":", ""}
MsgSubjects ==
  {" add x", " BREAKING CHANGE: y", " drop breaking change", " a Breaking Change b",
   " breaking  change", ""}
ClassifierInputs ==
  {t \o s \o b \o c \o x :
     t \in MsgTypes, s \in MsgScopes, b \in MsgBangs, c \in MsgColons, x \in MsgSubjects}

\* message lists handed to determineVersionChange
DvcMessages ==
  {"feat!: x", "fix: y", "feat: z", "chore: c", "fix(ui)!: w", "docs: BREAKING CHANGE",
   "Fix(ui): u"}
RECURSIVE SeqsUpTo(_, _)
SeqsUpTo(S, n) ==
  IF n = 0 THEN {<<>>}
  ELSE LET shorter == SeqsUpTo(S, n - 1)
       IN  shorter \cup {Append(q, x) : q \in {r \in shorter : Len(r) = n - 1}, x \in S}

FnIdle ==
  /\ fn = "none"
  /\ fnPc = "idle"
  /\ cvCurrent = ""
  /\ cvChanges = NoChanges
  /\ cvResult = ""
  /\ ccMessage = ""
  /\ ccResult = NotRelevant
  /\ dvCommits = <<>>
  /\ dvResult = NoChanges
  /\ dmFile = ""
  /\ dmDep = ""
  /\ dmResult = FALSE

\* the changed files and the dependsOn patterns the dependsOn test is called on
DepFiles ==
  {"packages/ui/index.ts", "packages\\ui\\index.ts", "packagesx/index.ts",
   "packages/ui", "shared/lib/a.ts", "README.md"}
DepPatterns == {"packages/*", "packages/**", "packages/ui", "packages", "shared/**"}

\* a call of one of the functions on drawn arguments
FnCalled ==
  /\ fnPc = "called"
  /\ cvResult = ""
  /\ ccResult = NotRelevant
  /\ dvResult = NoChanges
  /\ dmResult = FALSE
  /\ \/ /\ fn = "createVersion"
        /\ cvCurrent \in VersionInputs
        /\ cvChanges \in VersionChangeSets
        /\ ccMessage = ""
        /\ dvCommits = <<>>
        /\ dmFile = ""
        /\ dmDep = ""
     \/ /\ fn = "classify"
        /\ ccMessage \in ClassifierInputs
        /\ cvCurrent = ""
        /\ cvChanges = NoChanges
        /\ dvCommits = <<>>
        /\ dmFile = ""
        /\ dmDep = ""
     \/ /\ fn = "determineVersionChange"
        /\ dvCommits \in SeqsUpTo(DvcMessages, MaxMsgs)
        /\ cvCurrent = ""
        /\ cvChanges = NoChanges
        /\ ccMessage = ""
        /\ dmFile = ""
        /\ dmDep = ""
     \/ /\ fn = "fileMatchesDependency"
        /\ dmFile \in DepFiles
        /\ dmDep \in DepPatterns
        /\ cvCurrent = ""
        /\ cvChanges = NoChanges
        /\ ccMessage = ""
        /\ dvCommits = <<>>

CallCreateVersion ==
  /\ UNCHANGED <<envVars, runVars, gitVars, tagVars>>
  /\ fn = "createVersion"
  /\ fnPc = "called"
  /\ cvResult' = createVersion(cvCurrent, cvChanges)
  /\ fnPc' = "returned"
  /\ UNCHANGED <<fn, cvCurrent, cvChanges, ccMessage, ccResult, dvCommits, dvResult,
                 dmFile, dmDep, dmResult>>

CallClassify ==
  /\ UNCHANGED <<envVars, runVars, gitVars, tagVars>>
  /\ fn = "classify"
  /\ fnPc = "called"
  /\ ccResult' = isCommitAnyRelevantConvention(ccMessage)
  /\ fnPc' = "returned"
  /\ UNCHANGED <<fn, cvCurrent, cvChanges, cvResult, ccMessage, dvCommits, dvResult,
                 dmFile, dmDep, dmResult>>

CallDetermineVersionChange ==
  /\ UNCHANGED <<envVars, runVars, gitVars, tagVars>>
  /\ fn = "determineVersionChange"
  /\ fnPc = "called"
  /\ dvResult' = determineVersionChange(dvCommits)
  /\ fnPc' = "returned"
  /\ UNCHANGED <<fn, cvCurrent, cvChanges, cvResult, ccMessage, ccResult, dvCommits,
                 dmFile, dmDep, dmResult>>

(***************************************************************************)
(* helpers.ts, commits.ts: scope matching, commit parsing, the git calls   *)
(***************************************************************************)
\* checkPackageInScope comparing the trimmed names as written, case and all
checkPackageInScopeExact(scope, pkgName) == Trim(pkgName) = Trim(scope)

checkPackageInScope(scope, pkgName) ==
  ToLowerCase(Trim(pkgName)) = ToLowerCase(Trim(scope))

\* the length of the longest prefix of s made of the letters a-z
RECURSIVE LowerRunLen(_)
LowerRunLen(s) ==
  IF s # "" /\ IsLowerLetter(Head(s)) THEN 1 + LowerRunLen(Tail(s)) ELSE 0

NoCommitInfo == [matched |-> FALSE, type |-> "", scope |-> "", breaking |-> FALSE]

\* message.match(/^([a-z]+)(?:\(([^)]+)\))?(!)?:/)
parseCommitInfo(message) ==
  LET n == LowerRunLen(message)
      afterType == DropFirst(message, n)
      g == ScopeGroupLen(afterType)
      afterScope == DropFirst(afterType, g)
      bang == StartsWith(afterScope, "!")
      afterBang == IF bang THEN DropFirst(afterScope, 1) ELSE afterScope
  IN  IF n >= 1 /\ StartsWith(afterBang, ":")
      THEN [matched |-> TRUE,
            type |-> SubSeq(message, 1, n),
            scope |-> IF g = 0 THEN "" ELSE SubSeq(afterType, 2, g - 1),
            breaking |-> bang]
      ELSE NoCommitInfo

RECURSIVE JoinWith(_, _)
JoinWith(parts, sep) ==
  IF parts = <<>> THEN ""
  ELSE IF Len(parts) = 1 THEN parts[1]
  ELSE parts[1] \o sep \o JoinWith(Tail(parts), sep)

\* file.replace(/\\/g, "/")
RECURSIVE NormalizeSlashes(_)
NormalizeSlashes(s) ==
  IF s = "" THEN ""
  ELSE (IF Head(s) = "\\" THEN "/" ELSE Head(s)) \o NormalizeSlashes(Tail(s))

(***************************************************************************)
(* commits.ts, versions.ts: the git calls, answered from tags and history  *)
(***************************************************************************)
\* git describe --tags --match <pattern> --abbrev=0: does the tag name match
\* the pattern getLastTag builds from the prefix ("v[0-9]*" for "v", else
\* prefix*)?  No prefix of the model holds a glob character.
TagMatches(prefix, name) ==
  IF prefix = "v"
  THEN StartsWith(name, "v") /\ IsDigit(CharAt(name, 2))
  ELSE StartsWith(name, prefix)

\* the nearest matching tag; "" stands for the undefined of a failed lookup
\* (every caller only tests the result for truthiness)
getLastTag(prefix) ==
  LET matching == {i \in 1..Len(tags) : TagMatches(prefix, tags[i].name)}
      nearest == {i \in matching : \A j \in matching : tags[i].age <= tags[j].age}
  IN  IF matching = {} THEN ""
      ELSE tags[CHOOSE i \in nearest : \A j \in nearest : i <= j].name

NoTag == "HEAD"
RangeFrom(tag) == tag \o "..HEAD"

getCommitRange(prefix) ==
  LET found == getLastTag(prefix)
  IN  IF found # "" THEN RangeFrom(found) ELSE NoTag

\* git log <range> --format="%H %s": the output lines, newest first
GitLog(commitRange) ==
  LET inRange ==
        IF commitRange = NoTag THEN history
        ELSE LET t == CHOOSE i \in 1..Len(tags) : RangeFrom(tags[i].name) = commitRange
             IN  SubSeq(history, 1, tags[t].age)
  IN  [i \in 1..Len(inRange) |-> inRange[i].hash \o " " \o inRange[i].subject]

\* runCommand without the failure of the command: the output of a `git log`
\* that always succeeds
runCommandUnfailing(commitRange) == Trim(JoinWith(GitLog(commitRange), "\n"))

\* runCommand(`git log ...`): the trimmed output, "" standing for the undefined
\* that the swallowed error of a failed command leaves
runCommand(commitRange) ==
  IF commitRange \in failingLogs THEN ""
  ELSE Trim(JoinWith(GitLog(commitRange), "\n"))

\* runCommand(...)'s trimmed output split into lines, empty lines dropped
getCommits(commitRange) ==
  LET commitsRaw == runCommand(commitRange)
  IN  IF commitsRaw = "" THEN <<>>
      ELSE SelectSeq(Split(commitsRaw, "\n"), LAMBDA line : line # "")

ParseLogLine(line) ==
  LET words == Split(line, " ")
  IN  [hash |-> Trim(words[1]), message |-> Trim(JoinWith(Tail(words), " "))]

getCommitsForTag(tag) ==
  LET lines == getCommits(getCommitRange(tag))
      parsed == [i \in 1..Len(lines) |-> ParseLogLine(lines[i])]
  IN  SelectSeq(parsed, LAMBDA c : c.hash # "" /\ c.message # "")

\* git diff-tree --no-commit-id --name-only -r <hash>, trimmed and split
getChangedFilesInCommit(commitHash) ==
  LET c == CHOOSE i \in 1..Len(history) : history[i].hash = commitHash
  IN  Split(Trim(JoinWith(history[c].files, "\n")), "\n")

getCurrentVersion(prefix) ==
  LET found == getLastTag(prefix)
  IN  IF found = "" THEN "0.0.0" ELSE ReplaceFirst(found, prefix)

(***************************************************************************)
(* checkVersions: the body of the loop over a package's commits.           *)
(***************************************************************************)
CommitInfoOf(commit, relevance, commitInfo, reason) ==
  [hash |-> commit.hash,
   message |-> commit.message,
   type |-> IF relevance.type # "undefined" THEN relevance.type ELSE commitInfo.type,
   breaking |-> relevance.type = "major" \/ commitInfo.breaking,
   reasons |-> <<reason>>]

FileInDirectory(file, directory) ==
  LET normalizedFile == NormalizeSlashes(file)
      normalizedDir == NormalizeSlashes(directory)
  IN  IF normalizedDir = "." THEN TRUE
      ELSE StartsWith(normalizedFile, normalizedDir \o "/")
             \/ normalizedFile = normalizedDir

\* dep.replace("*", "") removes the first "*" of the pattern
FileMatchesDependency(file, dep) ==
  LET depPattern == ReplaceFirst(dep, "*")
      normalizedFile == NormalizeSlashes(file)
      normalizedPattern == NormalizeSlashes(depPattern)
  IN  StartsWith(normalizedFile, normalizedPattern \o "/")
        \/ normalizedFile = normalizedPattern

\* the dependsOn test of checkVersions on a drawn file and pattern
CallFileMatchesDependency ==
  /\ UNCHANGED <<envVars, runVars, gitVars, tagVars>>
  /\ fn = "fileMatchesDependency"
  /\ fnPc = "called"
  /\ dmResult' = FileMatchesDependency(dmFile, dmDep)
  /\ fnPc' = "returned"
  /\ UNCHANGED <<fn, cvCurrent, cvChanges, cvResult, ccMessage, ccResult, dvCommits, dvResult,
                 dmFile, dmDep>>

DirectReason(directory) == "Direct changes in " \o directory
DependencyReason(dep) == "Affected by changes in dependent package " \o dep
MajorReason == "Major version bump"
PackageScopeReason == "Changes in package scope"
RootScopeReason == "Changes in scope"
BumpReason == "Changes in root (nonScopeBehavior is set to 'bump')"

\* the test for a breaking change that forgets the verdict of the classifier
IsBreakingChangeBangOnly(relevance, commitInfo) ==
  commitInfo.breaking \/ commitInfo.type = "major"

\* the test that ends the loop: the commit is a breaking change
IsBreakingChange(relevance, commitInfo) ==
  relevance.type = "major" \/ commitInfo.breaking \/ commitInfo.type = "major"

\* bumpRootScope with "bump" as the behaviour of every value but "ignore"
BumpRootScopeUnlessIgnore(packageIsRootScope, nonScopeBehavior) ==
  packageIsRootScope \/ nonScopeBehavior # "ignore"

BumpRootScope(packageIsRootScope, nonScopeBehavior) ==
  packageIsRootScope \/ nonScopeBehavior = "bump"

\* the entries one pass of the loop body pushes for the commit, and whether
\* the pass leaves the loop (break) instead of going on
AnalyzeCommitFor(pkg, commit, nonScopeBehavior) ==
  LET commitInfo == parseCommitInfo(commit.message)
      relevance == isCommitAnyRelevantConvention(commit.message)
      entry(reason) == CommitInfoOf(commit, relevance, commitInfo, reason)
      packageScope == IF pkg.directory = "." THEN "" ELSE pkg.name
      packageIsRootScope == packageScope = ""
      isInScope == checkPackageInScope(commitInfo.scope, packageScope)
      isRootScope == commitInfo.scope = ""
      changedFilesList == getChangedFilesInCommit(commit.hash)
      direct ==
        IF \E f \in 1..Len(changedFilesList) :
             FileInDirectory(changedFilesList[f], pkg.directory)
        THEN <<entry(DirectReason(pkg.directory))>>
        ELSE <<>>
      matchingDeps ==
        SelectSeq(pkg.dependsOn,
                  LAMBDA dep : \E f \in 1..Len(changedFilesList) :
                                 FileMatchesDependency(changedFilesList[f], dep))
      dependent ==
        [d \in 1..Len(matchingDeps) |-> entry(DependencyReason(matchingDeps[d]))]
      bumpRootScope == BumpRootScope(packageIsRootScope, nonScopeBehavior)
  IN  IF ~commitInfo.matched THEN [push |-> <<>>, break |-> FALSE]
      ELSE IF ~relevance.isRelevant THEN [push |-> <<>>, break |-> FALSE]
      ELSE IF IsBreakingChange(relevance, commitInfo)
        THEN [push |-> <<entry(MajorReason)>>, break |-> TRUE]
      ELSE IF ~isInScope /\ ~isRootScope
        THEN [push |-> direct \o dependent, break |-> FALSE]
      ELSE IF isInScope /\ ~isRootScope
        THEN [push |-> <<entry(PackageScopeReason)>>, break |-> FALSE]
      ELSE IF isRootScope /\ bumpRootScope
        THEN [push |-> <<entry(IF packageIsRootScope THEN RootScopeReason ELSE BumpReason)>>,
              break |-> FALSE]
      ELSE [push |-> <<>>, break |-> FALSE]

(***************************************************************************)
(* The inputs a run is checked on.                                         *)
(***************************************************************************)
Package(name, tagPrefix, directory, dependsOn) ==
  [name |-> name, tagPrefix |-> tagPrefix, directory |-> directory,
   dependsOn |-> dependsOn]

RootPkg == Package("root", "v", ".", <<>>)
UiPkg == Package("ui", "ui-v", "packages/ui", <<>>)
AppPkg == Package("app", "app-v", "apps/web", <<"packages/ui", "packages/*">>)
\* a package whose tag prefix is the empty string (checkVersions falls back to "v")
LibPkg == Package("lib", "", "lib", <<>>)
\* a package without a name, outside the root directory
AnonPkg == Package("", "x-v", "tools", <<>>)

PackageLists ==
  {<<>>, <<RootPkg>>, <<UiPkg>>, <<LibPkg>>, <<AnonPkg>>,
   <<RootPkg, UiPkg>>, <<UiPkg, AppPkg>>}

ConfigOk(packages, nonScopeBehavior) ==
  [kind |-> "ok", versionedPackages |-> packages, nonScopeBehavior |-> nonScopeBehavior]

\* "undefined": the file has no nonScopeBehavior; "skip": a value the loader rejects;
\* "": a value that is neither "bump" nor "ignore" and falsy;
\* kind "missing": no file; kind "invalid": not JSON
ConfigFiles ==
  {ConfigOk(pl, b) : pl \in PackageLists, b \in {"undefined", "bump", "ignore"}}
    \cup {ConfigOk(<<UiPkg>>, "skip"), ConfigOk(<<UiPkg>>, ""),
          [kind |-> "missing", versionedPackages |-> <<>>, nonScopeBehavior |-> "undefined"],
          [kind |-> "invalid", versionedPackages |-> <<>>, nonScopeBehavior |-> "undefined"]}

Change(subject, files) == [subject |-> subject, files |-> files]

\* the commits a repository is made of
Corpus ==
  {Change("fix( UI ): trim", <<"packages/core/index.ts">>),
   Change("feat: repo wide", <<"README.md">>),
   Change("fix!: drop api", <<"README.md">>),
   Change("chore(core): BREAKING CHANGE in core", <<"packagesx/index.ts">>),
   Change("chore: cleanup", <<"packages/ui/index.ts">>),
   Change("feature: flags", <<"README.md">>),
   Change("fix(core): deps", <<"packages/ui/index.ts", "apps/web/Button.tsx">>),
   Change("fixup(ui)!: squash", <<"packages/ui/index.ts">>),
   Change("feature!: toggle", <<"README.md">>),
   Change("Merge branch main", <<>>)}

\* the commit hash of the i-th commit counted from the oldest
HashOf(i) == "c" \o NatToString(i)

\* the repository made of the changes, newest first
HistoryOf(changes) ==
  [i \in 1..Len(changes) |->
     [hash |-> HashOf(Len(changes) + 1 - i),
      subject |-> changes[i].subject,
      files |-> changes[i].files]]

Histories == {HistoryOf(c) : c \in SeqsUpTo(Corpus, MaxCommits)}

TagNames == {"v1.2.3", "ui-v0.9.9"}
Tag(name, age) == [name |-> name, age |-> age]

\* the tags of a repository of n commits: none, one tag on any commit, or a
\* tag of the root package on the oldest commit with a tag of ui on the newest
TagSets(n) ==
  {<<>>}
    \cup {<<Tag(name, age)>> : name \in TagNames, age \in 0..(n - 1)}
    \cup (IF n >= 1 THEN {<<Tag("v1.2.3", n - 1), Tag("ui-v0.9.9", 0)>>} ELSE {})

\* a result variable of a lookup that was not called yet
NotCalled == "(not called)"

\* the state of a process that has not called output or createTag
NoCall == [packageChanges |-> <<>>, versionUpdates |-> <<>>, tagCommands |-> <<>>,
           configFile |-> ConfigOk(<<>>, "undefined")]

TagIdle ==
  /\ cliOptions = [createTags |-> FALSE]
  /\ tagCommands = <<>>
  /\ keysRead = <<>>
  /\ calls = 0
  /\ previousCall = NoCall

GitIdle ==
  /\ gitPc = "idle"
  /\ gitPrefix = ""
  /\ gitLastTag = NotCalled
  /\ gitCurrentVersion = NotCalled
  /\ gitCommitRange = NotCalled

CheckVersionsIdle ==
  /\ pc = "idle"
  /\ config = ConfigOk(<<>>, "undefined")
  /\ jsonOutput = FALSE
  /\ packageChanges = <<>>
  /\ versionUpdates = <<>>
  /\ pkgIdx = 0
  /\ lastTag = ""
  /\ commits = <<>>
  /\ commitIdx = 0
  /\ commitsForPackage = <<>>
  /\ stdout = <<>>
  /\ stderr = <<>>
  /\ exitCode = -1

RunIdle ==
  /\ configFile = ConfigOk(<<>>, "undefined")
  /\ args = {}
  /\ history = <<>>
  /\ tags = <<>>
  /\ failingLogs = {}
  /\ pc = "idle"
  /\ config = ConfigOk(<<>>, "undefined")
  /\ jsonOutput = FALSE
  /\ packageChanges = <<>>
  /\ versionUpdates = <<>>
  /\ pkgIdx = 0
  /\ lastTag = ""
  /\ commits = <<>>
  /\ commitIdx = 0
  /\ commitsForPackage = <<>>
  /\ stdout = <<>>
  /\ stderr = <<>>
  /\ exitCode = -1

Init ==
  /\ FnIdle
  /\ GitIdle
  /\ TagIdle
  /\ configFile \in ConfigFiles
  /\ args \in {{}, {"--json"}}
  /\ history \in Histories
  /\ tags \in TagSets(Len(history))
  /\ failingLogs = {}
  /\ pc = "start"
  /\ config = ConfigOk(<<>>, "undefined")
  /\ jsonOutput = FALSE
  /\ packageChanges = <<>>
  /\ versionUpdates = <<>>
  /\ pkgIdx = 0
  /\ lastTag = ""
  /\ commits = <<>>
  /\ commitIdx = 0
  /\ commitsForPackage = <<>>
  /\ stdout = <<>>
  /\ stderr = <<>>
  /\ exitCode = -1

(***************************************************************************)
(* checkVersions                                                           *)
(***************************************************************************)
\* loadConfig throws: no file, no JSON, or a nonScopeBehavior that is set
\* (truthy) and not one of nonScopeBehaviors
LoadConfigThrows(file) ==
  \/ file.kind # "ok"
  \/ file.nonScopeBehavior \notin {"undefined", "", "bump", "ignore"}

\* the message of the error loadConfig throws
LoadConfigMessage(file) ==
  CASE file.kind = "missing" -> "ENOENT: no such file or directory"
    [] file.kind = "invalid" -> "Unexpected token in JSON"
    [] OTHER -> "nonScopeBehavior must be either 'ignore' or 'bump'"

ParseErrorCI(file) == "Error parsing config file: " \o LoadConfigMessage(file)
ParseErrorCLI == "Error: Failed to parse config file."
NoPackagesError == "Error: No packages defined in config file."
TagPrefixWarning(pkg) ==
  "Warning: No tag prefix found for package \"" \o pkg.name \o "\", using 'v' as default."

\* a clear() that leaves the map as it is
NotCleared(map) == map

\* packageChanges.clear(), versionUpdates.clear()
Cleared(map) == <<>>

\* the head of checkVersions: the flags, the cleared maps, the configuration
Start ==
  /\ UNCHANGED <<fnVars, gitVars, envVars, tagVars>>
  /\ pc = "start"
  /\ jsonOutput' = ("--json" \in args)
  /\ packageChanges' = Cleared(packageChanges)
  /\ versionUpdates' = Cleared(versionUpdates)
  /\ IF LoadConfigThrows(configFile)
       THEN /\ \E isCI \in BOOLEAN :
                 stderr' = <<IF isCI THEN ParseErrorCI(configFile) ELSE ParseErrorCLI>>
            /\ pc' = "exited"
            /\ exitCode' = 1
            /\ UNCHANGED <<config, pkgIdx>>
     ELSE IF Len(configFile.versionedPackages) = 0
       THEN /\ stderr' = IF "--json" \in args THEN <<>> ELSE <<NoPackagesError>>
            /\ pc' = "exited"
            /\ exitCode' = 1
            /\ config' = configFile
            /\ UNCHANGED pkgIdx
     ELSE pc' = "package" /\ config' = configFile /\ pkgIdx' = 1
            /\ UNCHANGED <<exitCode, stderr>>
  /\ UNCHANGED <<lastTag, commits, commitIdx, commitsForPackage, stdout>>

Pkg == config.versionedPackages[pkgIdx]

\* the head of the loop over the packages: the tag and the commits since it
BeginPackage ==
  /\ UNCHANGED <<fnVars, gitVars, envVars, tagVars>>
  /\ pc = "package"
  /\ LET prefix == IF Pkg.tagPrefix # "" THEN Pkg.tagPrefix ELSE "v"
         found == getLastTag(prefix)
     IN  /\ lastTag' = found
         /\ commits' = getCommitsForTag(IF found # "" THEN found ELSE "HEAD")
  /\ commitsForPackage' = <<>>
  /\ commitIdx' = 1
  /\ pc' = "commit"
  /\ stderr' = IF ~jsonOutput /\ Pkg.tagPrefix = ""
               THEN Append(stderr, TagPrefixWarning(Pkg))
               ELSE stderr
  /\ UNCHANGED <<config, jsonOutput, packageChanges, versionUpdates, pkgIdx, stdout, exitCode>>

\* one pass of the loop over the package's commits
AnalyzeCommit ==
  /\ UNCHANGED <<fnVars, gitVars, envVars, tagVars>>
  /\ pc = "commit"
  /\ commitIdx <= Len(commits)
  /\ LET pass == AnalyzeCommitFor(Pkg, commits[commitIdx], config.nonScopeBehavior)
     IN  /\ commitsForPackage' = commitsForPackage \o pass.push
         /\ commitIdx' = IF pass.break THEN Len(commits) + 1 ELSE commitIdx + 1
  /\ UNCHANGED <<pc, config, jsonOutput, packageChanges, versionUpdates, pkgIdx, lastTag,
                 commits, stdout, stderr, exitCode>>

\* after the loop over the commits: packageChanges.set(pkg, commitsForPackage)
EndPackage ==
  /\ UNCHANGED <<fnVars, gitVars, envVars, tagVars>>
  /\ pc = "commit"
  /\ commitIdx > Len(commits)
  /\ packageChanges' = Append(packageChanges, [pkg |-> pkgIdx, commits |-> commitsForPackage])
  /\ IF pkgIdx < Len(config.versionedPackages)
       THEN pkgIdx' = pkgIdx + 1 /\ pc' = "package"
       ELSE pkgIdx' = 1 /\ pc' = "version"
  /\ UNCHANGED <<config, jsonOutput, versionUpdates, lastTag, commits, commitIdx,
                 commitsForPackage, stdout, stderr, exitCode>>

\* the find that takes the first entry of the list, whatever its package
FirstEntryOfAll(name) == IF packageChanges = <<>> THEN 0 ELSE 1

\* packageChangeList.find(([pack]) => pack.name === pkg.name)
FirstEntryNamed(name) ==
  LET named == {e \in 1..Len(packageChanges) :
                  config.versionedPackages[packageChanges[e].pkg].name = name}
  IN  IF named = {} THEN 0 ELSE CHOOSE e \in named : \A f \in named : e <= f

\* the version update that reports a change for every package
VersionUpdateOfAlways(pkg, changes) ==
  LET currentVersion == getCurrentVersion(pkg.tagPrefix)
      versionChanges == determineVersionChange([c \in 1..Len(changes) |-> changes[c].message])
  IN  [tagPrefix |-> pkg.tagPrefix,
       currentVersion |-> currentVersion,
       nextVersion |-> createVersion(currentVersion, versionChanges),
       changes |-> changes,
       hasChanges |-> TRUE]

VersionUpdateOf(pkg, changes) ==
  LET currentVersion == getCurrentVersion(pkg.tagPrefix)
      versionChanges == determineVersionChange([c \in 1..Len(changes) |-> changes[c].message])
      nextVersion == createVersion(currentVersion, versionChanges)
  IN  [tagPrefix |-> pkg.tagPrefix,
       currentVersion |-> currentVersion,
       nextVersion |-> nextVersion,
       changes |-> changes,
       hasChanges |-> currentVersion # nextVersion]

\* one pass of config.versionedPackages.forEach: the package's version update
ResolveVersion ==
  /\ UNCHANGED <<fnVars, gitVars, envVars, tagVars>>
  /\ pc = "version"
  /\ LET e == FirstEntryNamed(Pkg.name)
     IN  IF e = 0 THEN UNCHANGED versionUpdates
         ELSE LET update == VersionUpdateOf(Pkg, packageChanges[e].commits)
              IN  versionUpdates' =
                    IF update.hasChanges
                    THEN Append(versionUpdates, [pkg |-> pkgIdx, update |-> update])
                    ELSE versionUpdates
  /\ IF pkgIdx < Len(config.versionedPackages)
       THEN pkgIdx' = pkgIdx + 1 /\ UNCHANGED pc
       ELSE pkgIdx' = 0 /\ pc' = "output"
  /\ UNCHANGED <<config, jsonOutput, packageChanges, lastTag, commits, commitIdx,
                 commitsForPackage, stdout, stderr, exitCode>>

\* outputJSON: the entries of Object.fromEntries(output), one per package name,
\* a later entry of the same name replacing the earlier one in place
RECURSIVE JsonEntries(_, _)
JsonEntries(done, updates) ==
  IF updates = <<>> THEN done
  ELSE LET u == Head(updates)
           name == config.versionedPackages[u.pkg].name
           value == [name |-> name,
                     currentVersion |-> u.update.currentVersion,
                     nextVersion |-> u.update.nextVersion,
                     hasChanges |-> u.update.hasChanges]
           next == IF \E i \in 1..Len(done) : done[i].name = name
                   THEN [i \in 1..Len(done) |-> IF done[i].name = name THEN value ELSE done[i]]
                   ELSE Append(done, value)
       IN  JsonEntries(next, Tail(updates))

\* output(jsonOutput ? "json" : "cli", ...)
Output ==
  /\ UNCHANGED <<fnVars, gitVars, envVars, tagVars>>
  /\ pc = "output"
  /\ stdout' = IF jsonOutput
               THEN [mode |-> "json", entries |-> JsonEntries(<<>>, versionUpdates)]
               ELSE [mode |-> "cli", entries |-> <<>>]
  /\ pc' = "done"
  /\ UNCHANGED <<config, jsonOutput, packageChanges, versionUpdates, pkgIdx, lastTag,
                 commits, commitIdx, commitsForPackage, stderr, exitCode>>


(***************************************************************************)
(* The tag lookups on drawn repositories, and the creation of a tag.       *)
(***************************************************************************)
\* the tag prefixes of packages: a root package, ui, two packages of which
\* one prefix starts with the other, and the empty prefix
GitPrefixes == {"v", "ui-v", "app-", "app-web-", ""}

\* the tags of a repository: releases of the packages and the tag "v2"
GitTagNames == {"v1.2.3", "v2", "ui-v0.9.9", "app-1.0.0", "app-web-2.0.0"}

\* the tags a release creates, each a prefix followed by a version
NewTagNames == {"v2.0.0", "ui-v1.0.0", "app-1.1.0", "app-web-2.0.1"}

GitHistory ==
  HistoryOf(<<Change("chore: cleanup", <<"README.md">>),
              Change("chore: cleanup", <<"README.md">>)>>)

\* no tag, one tag, or two tags of different names, each on any commit
GitTagSets ==
  {<<>>}
    \cup {<<Tag(n, a)>> : n \in GitTagNames, a \in 0..1}
    \cup {t \in {<<Tag(n1, a1), Tag(n2, a2)>> :
                    n1 \in GitTagNames, n2 \in GitTagNames, a1 \in 0..1, a2 \in 0..1} :
            t[1].name # t[2].name}

InitGit ==
  /\ FnIdle
  /\ CheckVersionsIdle
  /\ TagIdle
  /\ configFile = ConfigOk(<<>>, "undefined")
  /\ args = {}
  /\ history = GitHistory
  /\ tags \in {t \in GitTagSets : Len(t) <= MaxTags}
  /\ failingLogs = {}
  /\ gitPc = "ready"
  /\ gitPrefix \in GitPrefixes
  /\ gitLastTag = NotCalled
  /\ gitCurrentVersion = NotCalled
  /\ gitCommitRange = NotCalled

CallGetLastTag ==
  /\ UNCHANGED <<fnVars, envVars, runVars, tagVars>>
  /\ gitPc = "ready"
  /\ gitLastTag' = getLastTag(gitPrefix)
  /\ UNCHANGED <<gitPc, gitPrefix, gitCurrentVersion, gitCommitRange>>

CallGetCurrentVersion ==
  /\ UNCHANGED <<fnVars, envVars, runVars, tagVars>>
  /\ gitPc = "ready"
  /\ gitCurrentVersion' = getCurrentVersion(gitPrefix)
  /\ UNCHANGED <<gitPc, gitPrefix, gitLastTag, gitCommitRange>>

CallGetCommitRange ==
  /\ UNCHANGED <<fnVars, envVars, runVars, tagVars>>
  /\ gitPc = "ready"
  /\ gitCommitRange' = getCommitRange(gitPrefix)
  /\ UNCHANGED <<gitPc, gitPrefix, gitLastTag, gitCurrentVersion>>

\* does the repository hold a tag of the name?
TagExists(ts, name) == \E i \in 1..Len(ts) : ts[i].name = name

GitTag == "git tag"
GitPush == "git push origin"

\* createTag(tag, publish) in the repository of the tags ts: git tag <tag>
\* puts the tag on HEAD and fails when a tag of that name exists (runCommand
\* swallows the failure); then, if publish, git push origin <tag> (the remote
\* is not modelled: no push fails).  The tags after the call and the commands.
createTag(ts, tag, publish) ==
  [tags |-> IF TagExists(ts, tag) THEN ts ELSE Append(ts, Tag(tag, 0)),
   commands |->
     <<[command |-> GitTag, tag |-> tag, failed |-> TagExists(ts, tag)]>>
       \o (IF publish
           THEN <<[command |-> GitPush, tag |-> tag, failed |-> FALSE]>>
           ELSE <<>>)]

\* a call of createTag on the repository
CreateTag ==
  /\ UNCHANGED <<fnVars, runVars, gitVars>>
  /\ gitPc = "ready"
  /\ Len(tags) < MaxTags
  /\ \E name \in NewTagNames, publish \in BOOLEAN :
       LET call == createTag(tags, name, publish)
       IN  /\ tags' = call.tags
           /\ tagCommands' = call.commands
  /\ UNCHANGED <<configFile, args, history, failingLogs>>
  /\ UNCHANGED <<cliOptions, keysRead, calls, previousCall>>

NextGit == CallGetLastTag \/ CallGetCurrentVersion \/ CallGetCommitRange \/ CreateTag

(***************************************************************************)
(* The output that creates tags, and a further call of checkVersions.      *)
(***************************************************************************)
\* the largest number of further calls of checkVersions in one process
MaxCalls == 1

\* the key Ctrl-C, "\u0003"
CtrlC == "^C"

\* the keys pressed at the prompt
Keys == {"y", "Y", "\r", "\n", "c", "C", "n", "q", CtrlC}

\* const newTag = `${tagPrefix}${nextVersion}`
TagOfUpdate(update) == update.tagPrefix \o update.nextVersion

\* the loop over versionUpdates that calls createTag(newTag, publish): the
\* tags after it and the commands it ran
RECURSIVE createTags(_, _, _, _)
createTags(ts, commands, updates, publish) ==
  IF updates = <<>> THEN [tags |-> ts, commands |-> commands]
  ELSE LET call == createTag(ts, TagOfUpdate(Head(updates).update), publish)
       IN  createTags(call.tags, commands \o call.commands, Tail(updates), publish)

\* output offers tags in whatever mode and with whatever updates
TagsOfferedAlways(mode, updates) == TRUE

\* does output get as far as the creation of tags?  Not in mode "json", and
\* not when outputCLI returns for versionUpdates.size === 0
TagsOffered(mode, updates) == mode = "cli" /\ updates # <<>>

\* every answer that creates tags publishes them
PublishesAlways(response) == TRUE

\* the answers of the prompt that create the tags, and those that also push
CreatesTags(response) == response \in {"y", "\r", "\n", "c"}
Publishes(response) == response # "c"

\* output(mode, data) with outputCLI's tag creation: the summary, then the
\* tags of all version updates, at once under createTags, else on the answer
\* of the prompt; Ctrl-C at the prompt ends the process
OutputAndTag ==
  /\ UNCHANGED <<fnVars, gitVars>>
  /\ pc = "output"
  /\ stdout' = IF jsonOutput
               THEN [mode |-> "json", entries |-> JsonEntries(<<>>, versionUpdates)]
               ELSE [mode |-> "cli", entries |-> <<>>]
  /\ IF ~TagsOffered(IF jsonOutput THEN "json" ELSE "cli", versionUpdates)
       THEN /\ tagCommands' = <<>>
            /\ pc' = "done"
            /\ UNCHANGED <<tags, keysRead, exitCode>>
     ELSE IF cliOptions.createTags
       THEN /\ LET made == createTags(tags, <<>>, versionUpdates, TRUE)
               IN  tags' = made.tags /\ tagCommands' = made.commands
            /\ pc' = "done"
            /\ UNCHANGED <<keysRead, exitCode>>
     ELSE \E key \in Keys :
            /\ keysRead' = Append(keysRead, key)
            /\ IF key = CtrlC
                 THEN /\ pc' = "exited"
                      /\ exitCode' = 0
                      /\ tagCommands' = <<>>
                      /\ UNCHANGED tags
               ELSE /\ LET response == ToLowerCase(key)
                           made == createTags(tags, <<>>, versionUpdates, Publishes(response))
                       IN  IF CreatesTags(response)
                           THEN tags' = made.tags /\ tagCommands' = made.commands
                           ELSE tags' = tags /\ tagCommands' = <<>>
                    /\ pc' = "done"
                    /\ UNCHANGED exitCode
  /\ UNCHANGED <<config, jsonOutput, packageChanges, versionUpdates, pkgIdx, lastTag,
                 commits, commitIdx, commitsForPackage, stderr>>
  /\ UNCHANGED <<configFile, args, history, failingLogs, cliOptions, calls, previousCall>>

\* the lists of packages release-config.json may hold at a further call: the
\* same, or one without its first or without its last package
EditedPackages(packages) ==
  {packages} \cup (IF Len(packages) >= 2
                   THEN {Tail(packages), SubSeq(packages, 1, Len(packages) - 1)}
                   ELSE {})

\* a further call of checkVersions in the same process, on the same commits
\* and on the tags as they are now: the maps, config and the flags are
\* module-level and still hold what the call before left in them
CallAgain ==
  /\ UNCHANGED <<fnVars, gitVars>>
  /\ pc = "done"
  /\ calls < MaxCalls
  /\ calls' = calls + 1
  /\ previousCall' = [packageChanges |-> packageChanges,
                      versionUpdates |-> versionUpdates,
                      tagCommands |-> tagCommands,
                      configFile |-> configFile]
  /\ \E packages \in EditedPackages(configFile.versionedPackages) :
       configFile' = ConfigOk(packages, configFile.nonScopeBehavior)
  /\ pc' = "start"
  /\ pkgIdx' = 0
  /\ lastTag' = ""
  /\ commits' = <<>>
  /\ commitIdx' = 0
  /\ commitsForPackage' = <<>>
  /\ stdout' = <<>>
  /\ stderr' = <<>>
  /\ keysRead' = <<>>
  /\ UNCHANGED <<config, jsonOutput, packageChanges, versionUpdates, exitCode>>
  /\ UNCHANGED <<args, history, tags, failingLogs, cliOptions, tagCommands>>

(***************************************************************************)
(* The specifications.                                                     *)
(***************************************************************************)
vars == <<fnVars, gitVars, envVars, runVars, tagVars>>

\* the pure functions on drawn inputs
InitFn == FnCalled /\ GitIdle /\ TagIdle /\ RunIdle

NextFn ==
  CallCreateVersion \/ CallClassify \/ CallDetermineVersionChange
    \/ CallFileMatchesDependency

SpecFn == InitFn /\ [][NextFn]_vars

\* the tag lookups on drawn repositories
SpecGit == InitGit /\ [][NextGit]_vars

\* a run of checkVersions on a drawn repository and configuration
Next == Start \/ BeginPackage \/ AnalyzeCommit \/ EndPackage \/ ResolveVersion \/ Output

Spec == Init /\ [][Next]_vars

\* the repositories and configurations of the runs in which `git log` fails
FailingCorpus ==
  {c \in Corpus : c.subject \in {"fix( UI ): trim", "feat: repo wide", "fix!: drop api"}}

FailingRanges == {NoTag} \cup {RangeFrom(name) : name \in TagNames}

InitFailing ==
  /\ FnIdle
  /\ GitIdle
  /\ TagIdle
  /\ configFile \in {ConfigOk(pl, "bump") : pl \in {<<UiPkg, AppPkg>>, <<RootPkg, UiPkg>>}}
  /\ args \in {{}, {"--json"}}
  /\ history \in {HistoryOf(c) : c \in SeqsUpTo(FailingCorpus, MaxCommits)}
  /\ tags \in TagSets(Len(history))
  /\ failingLogs \in {{r} : r \in FailingRanges}
  /\ pc = "start"
  /\ config = ConfigOk(<<>>, "undefined")
  /\ jsonOutput = FALSE
  /\ packageChanges = <<>>
  /\ versionUpdates = <<>>
  /\ pkgIdx = 0
  /\ lastTag = ""
  /\ commits = <<>>
  /\ commitIdx = 0
  /\ commitsForPackage = <<>>
  /\ stdout = <<>>
  /\ stderr = <<>>
  /\ exitCode = -1

\* a run of checkVersions in a repository where `git log` fails for one range
SpecFailing == InitFailing /\ [][Next]_vars

\* the repositories and configurations of the runs that create tags
TaggingPackageLists == {<<UiPkg>>, <<LibPkg>>, <<RootPkg, UiPkg>>, <<UiPkg, AppPkg>>}

InitTagging ==
  /\ FnIdle
  /\ GitIdle
  /\ configFile \in {ConfigOk(pl, "bump") : pl \in TaggingPackageLists}
  /\ args \in {{}, {"--json"}}
  /\ history \in {HistoryOf(c) : c \in SeqsUpTo(FailingCorpus, MaxCommits)}
  /\ tags \in TagSets(Len(history))
  /\ failingLogs = {}
  /\ cliOptions \in [createTags : BOOLEAN]
  /\ tagCommands = <<>>
  /\ keysRead = <<>>
  /\ calls = 0
  /\ previousCall = NoCall
  /\ pc = "start"
  /\ config = ConfigOk(<<>>, "undefined")
  /\ jsonOutput = FALSE
  /\ packageChanges = <<>>
  /\ versionUpdates = <<>>
  /\ pkgIdx = 0
  /\ lastTag = ""
  /\ commits = <<>>
  /\ commitIdx = 0
  /\ commitsForPackage = <<>>
  /\ stdout = <<>>
  /\ stderr = <<>>
  /\ exitCode = -1

NextTagging ==
  Start \/ BeginPackage \/ AnalyzeCommit \/ EndPackage \/ ResolveVersion \/ OutputAndTag
    \/ CallAgain

\* calls of checkVersions whose output creates the tags of the version updates
SpecTagging == InitTagging /\ [][NextTagging]_vars

(***************************************************************************)
(* Claims about the pure functions, checked under SpecFn.                  *)
(***************************************************************************)
Returned(f) == fn = f /\ fnPc = "returned"

\* the version strings of the triads within (and one beyond) the bound
TriadString == [t \in (0..(MaxVer + 1)) \X (0..(MaxVer + 1)) \X (0..(MaxVer + 1)) |->
                  FormatVersion(t[1], t[2], t[3])]
Triads == (0..MaxVer) \X (0..MaxVer) \X (0..MaxVer)
\* the triad a version string of the bound was written from
TriadOfString == [s \in {TriadString[t] : t \in Triads} |->
                    CHOOSE t \in Triads : TriadString[t] = s]

\* C1: for a current version M.m.p of non-negative integers createVersion
\* returns (M+1).0.0 when major is set, else M.(m+1).0 when minor is set, else
\* M.m.(p+1) when patch is set, else the current version unchanged; at most
\* one component is bumped.
C1_CreateVersionPrecedence ==
  (Returned("createVersion") /\ cvCurrent \in DOMAIN TriadOfString) =>
      LET t == TriadOfString[cvCurrent]
      IN  cvResult =
            IF cvChanges.major THEN TriadString[<<t[1] + 1, 0, 0>>]
            ELSE IF cvChanges.minor THEN TriadString[<<t[1], t[2] + 1, 0>>]
            ELSE IF cvChanges.patch THEN TriadString[<<t[1], t[2], t[3] + 1>>]
            ELSE cvCurrent

C1_Witness ==
  /\ Returned("createVersion")
  /\ cvCurrent = "9.9.9"
  /\ cvChanges = [major |-> TRUE, minor |-> TRUE, patch |-> TRUE]
  /\ cvResult = "10.0.0"

\* C3: determineVersionChange sets each flag exactly when some message of the
\* list classifies to that magnitude; a major message does not suppress the
\* minor or patch flag of another message ('feat!:' with 'fix:' gives major
\* and patch, not minor).
C3_FlagsOrAccumulate ==
  Returned("determineVersionChange") =>
    /\ \A mag \in {"major", "minor", "patch"} :
         dvResult[mag] <=>
           \E i \in 1..Len(dvCommits) :
             isCommitAnyRelevantConvention(dvCommits[i]) = Relevant(mag)
    /\ dvCommits = <<"feat!: x", "fix: y">> =>
         dvResult = [major |-> TRUE, minor |-> FALSE, patch |-> TRUE]

C3_Witness ==
  /\ Returned("determineVersionChange")
  /\ dvCommits = <<"feat!: x", "fix: y">>
  /\ dvResult = [major |-> TRUE, minor |-> FALSE, patch |-> TRUE]

\* the text "breaking change" at position i of m, whatever the case of each letter
BreakingTextAt(m, i) ==
  /\ i + 14 <= Len(m)
  /\ \A k \in 1..15 : LowerChar(CharAt(m, i + k - 1)) = CharAt("breaking change", k)

ContainsBreakingText(m) == \E i \in 1..Len(m) : BreakingTextAt(m, i)

\* C4: a message that contains "breaking change" in any letter case at any
\* position is relevant with type major, whatever its leading type token.
C4_BreakingTextIsMajor ==
  (Returned("classify") /\ ContainsBreakingText(ccMessage)) =>
    ccResult = Relevant("major")

C4_Witness ==
  /\ Returned("classify")
  /\ ccMessage = "chore(ui): a Breaking Change b"
  /\ ccResult = Relevant("major")

\* m matches ^(feat|fix)\([^)]*\)?!: , the pattern as the claim writes it
MatchesClaimedBangPattern(m) ==
  \E t \in {"feat", "fix"} :
    /\ StartsWith(m, t \o "(")
    /\ LET r == DropFirst(m, Len(t) + 1)
       IN  \E k \in 0..Len(r) :
             /\ \A j \in 1..k : CharAt(r, j) # ")"
             /\ \/ StartsWith(DropFirst(r, k), "!:")
                \/ StartsWith(DropFirst(r, k), ")!:")

\* m matches ^(feat|fix)(\([^)]+\))?!: , the pattern of the code
MatchesBangPattern(m) ==
  \E t \in {"feat", "fix"} :
    \/ StartsWith(m, t \o "!:")
    \/ /\ StartsWith(m, t \o "(")
       /\ \E k \in 1..Len(m) :
            /\ \A j \in 1..k : CharAt(m, Len(t) + 1 + j) \notin {")", ""}
            /\ StartsWith(DropFirst(m, Len(t) + 1 + k), ")!:")

C6_MinorPatchOrNothing ==
  (/\ Returned("classify")
   /\ ~ContainsBreakingText(ccMessage)
   /\ ~MatchesBangPattern(ToLowerCase(ccMessage))) =>
    ccResult =
      IF StartsWith(ToLowerCase(ccMessage), "feat") THEN Relevant("minor")
      ELSE IF StartsWith(ToLowerCase(ccMessage), "fix") THEN Relevant("patch")
      ELSE NotRelevant

C6_Witness ==
  /\ Returned("classify")
  /\ ccMessage = "FIX(UI): add x"
  /\ ccResult = Relevant("patch")


(***************************************************************************)
(* Claims about a run of checkVersions, checked under Spec.                *)
(***************************************************************************)
\* the loop over the package's commits has ended and its result is not yet stored
LoopDone == pc = "commit" /\ commitIdx > Len(commits)

InfoAt(k) == parseCommitInfo(commits[k].message)
VerdictAt(k) == isCommitAnyRelevantConvention(commits[k].message)

\* the entries of commitsForPackage made for the k-th commit of the range
EntriesAt(k) ==
  SelectSeq(commitsForPackage, LAMBDA e : e.hash = commits[k].hash)

\* no commit before the k-th of the range was attributed as a major bump
NoMajorBefore(k) ==
  \A j \in 1..(k - 1) :
    \A e \in 1..Len(EntriesAt(j)) : EntriesAt(j)[e].reasons # <<MajorReason>>

\* the three numbers of a well-formed version string, <<>> for any other string
VersionNumbers(s) ==
  LET parts == Split(s, ".")
  IN  IF Len(parts) = 3 /\ \A i \in 1..3 : parts[i] # "" /\ AllDigits(parts[i])
      THEN [i \in 1..3 |-> DecimalValue(parts[i])]
      ELSE <<>>

\* C2: whenever a package's resolved update has hasChanges, its nextVersion is
\* a version whose major, minor or patch component (exactly one of them) is
\* greater than the current version's, the lower components reset to zero.
C2_NextVersionBumpsOneComponent ==
  \A u \in 1..Len(versionUpdates) :
    LET update == versionUpdates[u].update
        cur == VersionNumbers(update.currentVersion)
        nxt == VersionNumbers(update.nextVersion)
    IN  update.hasChanges =>
          /\ cur # <<>>
          /\ nxt # <<>>
          /\ \/ nxt = <<cur[1] + 1, 0, 0>>
             \/ nxt = <<cur[1], cur[2] + 1, 0>>
             \/ nxt = <<cur[1], cur[2], cur[3] + 1>>

\* C7: a commit whose type is neither feat nor fix and that carries no
\* breaking marker ("!" or the text "breaking change") is attributed to no
\* package, and so bumps no version.
C7_OtherTypesNeverAttributed ==
  \A e \in 1..Len(commitsForPackage) :
    LET info == parseCommitInfo(commitsForPackage[e].message)
    IN  \/ info.type \in {"feat", "fix"}
        \/ info.breaking
        \/ ContainsBreakingText(commitsForPackage[e].message)

\* C8: every parsed commit of a package's range whose verdict is major is
\* attributed to the package with the one reason "Major version bump",
\* wherever it stands in the range.
C8_EveryMajorCommitAttributed ==
  LoopDone =>
    \A k \in 1..Len(commits) :
      (InfoAt(k).matched /\ VerdictAt(k).type = "major") =>
        /\ Len(EntriesAt(k)) = 1
        /\ EntriesAt(k)[1].reasons = <<MajorReason>>

\* C8 (amended): a parsed commit of a package's range whose verdict is major
\* and before which no commit of the range was attributed as a major bump is
\* attributed with the one reason "Major version bump", and the loop over the
\* range ends there: no later commit of the range is attributed.
C8_FirstMajorCommitEndsLoop ==
  LoopDone =>
    \A k \in 1..Len(commits) :
      (NoMajorBefore(k) /\ InfoAt(k).matched /\ VerdictAt(k).type = "major") =>
        /\ Len(EntriesAt(k)) = 1
        /\ EntriesAt(k)[1].reasons = <<MajorReason>>
        /\ commitsForPackage[Len(commitsForPackage)] = EntriesAt(k)[1]
        /\ \A j \in (k + 1)..Len(commits) : EntriesAt(j) = <<>>

\* a loop ended by the first of two major commits
C8_Witness ==
  /\ LoopDone
  /\ Len(commits) = 2
  /\ \A k \in 1..2 : InfoAt(k).matched /\ VerdictAt(k).type = "major"
  /\ Len(commitsForPackage) = 1
  /\ commitsForPackage[1].hash = commits[1].hash
  /\ commitsForPackage[1].reasons = <<MajorReason>>

\* the commit's scope names the package: equal after trimming, case ignored
ScopeNames(scope, name) == ToLowerCase(Trim(scope)) = ToLowerCase(Trim(name))

\* C9: a relevant non-major commit whose scope equals the package's name
\* (trimmed, case ignored), the package not being in directory ".", is
\* attributed to the package with the one reason "Changes in package scope".
C9_ScopedCommitAttributed ==
  LoopDone =>
    \A k \in 1..Len(commits) :
      (/\ InfoAt(k).matched
       /\ VerdictAt(k).isRelevant
       /\ VerdictAt(k).type # "major"
       /\ Pkg.directory # "."
       /\ ScopeNames(InfoAt(k).scope, Pkg.name)) =>
        /\ Len(EntriesAt(k)) = 1
        /\ EntriesAt(k)[1].reasons = <<PackageScopeReason>>

\* C9 (amended): a relevant non-major commit without the "!" mark, before
\* which no commit of the range was attributed as a major bump and whose
\* non-empty scope equals the package's name (trimmed, case ignored), the
\* package not being in directory ".", is attributed to the package with the
\* one reason "Changes in package scope".
C9_ReachedScopedCommitAttributed ==
  LoopDone =>
    \A k \in 1..Len(commits) :
      (/\ NoMajorBefore(k)
       /\ InfoAt(k).matched
       /\ VerdictAt(k).isRelevant
       /\ VerdictAt(k).type # "major"
       /\ ~InfoAt(k).breaking
       /\ InfoAt(k).scope # ""
       /\ Pkg.directory # "."
       /\ ScopeNames(InfoAt(k).scope, Pkg.name)) =>
        /\ Len(EntriesAt(k)) = 1
        /\ EntriesAt(k)[1].reasons = <<PackageScopeReason>>

\* the commit "fix( UI ): trim" attributed to the package ui
C9_Witness ==
  /\ LoopDone
  /\ Pkg.name = "ui"
  /\ \E k \in 1..Len(commits) :
       /\ InfoAt(k).scope = " UI "
       /\ EntriesAt(k) # <<>>
       /\ EntriesAt(k)[1].reasons = <<PackageScopeReason>>

C11_UnsetBehavesAsBump ==
  (LoopDone /\ config.nonScopeBehavior = "undefined") =>
    \A k \in 1..Len(commits) :
      NoMajorBefore(k) =>
        EntriesAt(k) = AnalyzeCommitFor(Pkg, commits[k], "bump").push

\* the files the k-th commit of the range changed
ChangedFilesAt(k) ==
  LET c == CHOOSE i \in 1..Len(history) : history[i].hash = commits[k].hash
  IN  {history[c].files[f] : f \in 1..Len(history[c].files)}

\* the reasons the package's list gives for the k-th commit of the range
ReasonsAt(k) ==
  UNION {{EntriesAt(k)[e].reasons[r] : r \in 1..Len(EntriesAt(k)[e].reasons)} :
           e \in 1..Len(EntriesAt(k))}

RECURSIVE StripStars(_)
StripStars(s) ==
  IF s = "" THEN ""
  ELSE (IF Head(s) = "*" THEN "" ELSE Head(s)) \o StripStars(Tail(s))

RECURSIVE StripSlashes(_)
StripSlashes(s) ==
  IF s # "" /\ CharAt(s, Len(s)) = "/" THEN StripSlashes(SubSeq(s, 1, Len(s) - 1)) ELSE s

\* the file is the directory or lies below it; every file lies below "."
LiesUnder(file, directory) ==
  directory = "." \/ file = directory \/ StartsWith(file, directory \o "/")

\* the file lies under the directory a dependsOn pattern names
LiesUnderPattern(file, dep) == LiesUnder(file, StripSlashes(StripStars(dep)))

\* the k-th commit is relevant, not major, unmarked, reached by the loop, and
\* has a scope that is not empty and not the package's
ForeignScopedAt(k) ==
  /\ NoMajorBefore(k)
  /\ InfoAt(k).matched
  /\ VerdictAt(k).isRelevant
  /\ VerdictAt(k).type # "major"
  /\ ~InfoAt(k).breaking
  /\ InfoAt(k).scope # ""
  /\ ~ScopeNames(InfoAt(k).scope, IF Pkg.directory = "." THEN "" ELSE Pkg.name)

\* C12: a relevant non-major commit with a scope that is not empty and not
\* the package's is attributed to the package exactly when one of its changed
\* files lies under the package's directory (reason "Direct changes in ...")
\* or under the directory of one of the package's dependsOn patterns (reason
\* "Affected by changes in dependent package ..."), with just those reasons.
C12_ForeignScopeAttributedByFiles ==
  LoopDone =>
    \A k \in 1..Len(commits) :
      ForeignScopedAt(k) =>
        LET direct == \E f \in ChangedFilesAt(k) : LiesUnder(f, Pkg.directory)
            deps == {d \in 1..Len(Pkg.dependsOn) :
                       \E f \in ChangedFilesAt(k) : LiesUnderPattern(f, Pkg.dependsOn[d])}
        IN  ReasonsAt(k) =
              (IF direct THEN {DirectReason(Pkg.directory)} ELSE {})
                \cup {DependencyReason(Pkg.dependsOn[d]) : d \in deps}

\* C13: the dependsOn test matches a changed file exactly when the file is
\* the directory the pattern names (the pattern without its "*" characters)
\* or lies below it: "packages/*" and "packages/**" match
\* "packages/ui/index.ts" and do not match "packagesx/index.ts".
C13_PatternMatchesFilesBelow ==
  Returned("fileMatchesDependency") =>
    (dmResult <=> LiesUnderPattern(NormalizeSlashes(dmFile), NormalizeSlashes(dmDep)))

\* the run has ended with the JSON object on standard output
JsonDone == pc = "done" /\ jsonOutput

\* the commits attributed to the i-th configured package
AttributedTo(i) ==
  packageChanges[CHOOSE e \in 1..Len(packageChanges) : packageChanges[e].pkg = i].commits

\* the entries of the emitted object under the name of the i-th package
JsonEntriesOf(i) ==
  SelectSeq(stdout.entries, LAMBDA e : e.name = config.versionedPackages[i].name)

\* C14: the emitted JSON object has an entry for every configured package; a
\* package without attributed commits has hasChanges = false and a
\* nextVersion equal to its currentVersion.
C14_EveryPackageInJson ==
  JsonDone =>
    \A i \in 1..Len(config.versionedPackages) :
      /\ Len(JsonEntriesOf(i)) = 1
      /\ AttributedTo(i) = <<>> =>
           /\ ~JsonEntriesOf(i)[1].hasChanges
           /\ JsonEntriesOf(i)[1].nextVersion = JsonEntriesOf(i)[1].currentVersion

\* C14 (amended): the emitted JSON object has an entry for exactly the
\* configured packages with at least one attributed commit, each with
\* hasChanges = true and a nextVersion different from its currentVersion; a
\* package without attributed commits has no entry.
C14_ChangedPackagesInJson ==
  JsonDone =>
    /\ \A i \in 1..Len(config.versionedPackages) :
         /\ Len(JsonEntriesOf(i)) = (IF AttributedTo(i) = <<>> THEN 0 ELSE 1)
         /\ AttributedTo(i) # <<>> =>
              /\ JsonEntriesOf(i)[1].hasChanges
              /\ JsonEntriesOf(i)[1].currentVersion =
                   getCurrentVersion(config.versionedPackages[i].tagPrefix)
              /\ JsonEntriesOf(i)[1].nextVersion # JsonEntriesOf(i)[1].currentVersion
    /\ \A e \in 1..Len(stdout.entries) :
         \E i \in 1..Len(config.versionedPackages) :
           stdout.entries[e].name = config.versionedPackages[i].name

\* a JSON object with an entry for ui and none for app, which has no commits
C14_Witness ==
  /\ JsonDone
  /\ Len(config.versionedPackages) = 2
  /\ AttributedTo(1) # <<>>
  /\ AttributedTo(2) = <<>>
  /\ Len(stdout.entries) = 1
  /\ stdout.entries[1].name = config.versionedPackages[1].name

(***************************************************************************)
(* Claims about the tag lookups, checked under SpecGit.                    *)
(***************************************************************************)
\* C15: the current version getCurrentVersion computes for a package's tag
\* prefix (a prefix that is not empty) is a string X.Y.Z of three non-negative
\* integers: "0.0.0" when no tag matches the prefix, and otherwise the last
\* matching tag with the prefix removed.
C15_CurrentVersionIsTriad ==
  (gitPc = "ready" /\ gitPrefix # "" /\ gitCurrentVersion # NotCalled
     /\ gitCurrentVersion = getCurrentVersion(gitPrefix)) =>
    /\ VersionNumbers(gitCurrentVersion) # <<>>
    /\ getLastTag(gitPrefix) = "" => gitCurrentVersion = "0.0.0"
    /\ getLastTag(gitPrefix) # "" => getLastTag(gitPrefix) = gitPrefix \o gitCurrentVersion

(***************************************************************************)
(* Further claims about a run of checkVersions, checked under Spec.        *)
(***************************************************************************)
\* the configuration file is in error: missing, not JSON, a nonScopeBehavior
\* that is present and neither "bump" nor "ignore", or no package
ConfigurationError ==
  \/ configFile.kind # "ok"
  \/ configFile.nonScopeBehavior \notin {"undefined", "bump", "ignore"}
  \/ Len(configFile.versionedPackages) = 0

\* C16: a configuration error ends the run with a non-zero exit code and a
\* message before any package is analysed: the run never gets to a package's
\* tag and commits, and prints no report and no JSON object.
C16_ConfigurationErrorEndsRun ==
  ConfigurationError =>
    /\ pc \in {"start", "exited"}
    /\ packageChanges = <<>>
    /\ stdout = <<>>
    /\ pc = "exited" => (exitCode > 0 /\ stderr # <<>>)


\* the commit range checkVersions asks `git log` for, for the i-th package
RangeOfPackage(i) ==
  LET tagPrefix == config.versionedPackages[i].tagPrefix
      found == getLastTag(IF tagPrefix # "" THEN tagPrefix ELSE "v")
  IN  getCommitRange(IF found # "" THEN found ELSE "HEAD")

\* the commits of a range as a `git log` that succeeds lists them
CommitsInRange(commitRange) ==
  [i \in 1..Len(GitLog(commitRange)) |-> ParseLogLine(GitLog(commitRange)[i])]

\* the commits the loop over cs attributes to pkg: the entries of every pass up
\* to and including the pass that breaks
RECURSIVE AttributedFrom(_, _, _)
AttributedFrom(pkg, cs, nonScopeBehavior) ==
  IF cs = <<>> THEN <<>>
  ELSE LET pass == AnalyzeCommitFor(pkg, Head(cs), nonScopeBehavior)
       IN  IF pass.break THEN pass.push
           ELSE pass.push \o AttributedFrom(pkg, Tail(cs), nonScopeBehavior)

TagOwner(name) ==
  CASE name = "v2.0.0" -> "v"
    [] name = "ui-v1.0.0" -> "ui-v"
    [] name = "app-1.1.0" -> "app-"
    [] name = "app-web-2.0.1" -> "app-web-"

\* C18: the creation of a tag of a package never changes the last tag, the
\* current version or the commit range of a package with a different,
\* non-empty tag prefix.
C18_TagsOfOthersChangeNothing ==
  [][(gitPrefix # "" /\ tags' # tags /\ TagOwner(tags'[Len(tags')].name) # gitPrefix) =>
       /\ getLastTag(gitPrefix)' = getLastTag(gitPrefix)
       /\ getCurrentVersion(gitPrefix)' = getCurrentVersion(gitPrefix)
       /\ getCommitRange(gitPrefix)' = getCommitRange(gitPrefix)]_vars


\* C19: in the list of commits attributed to a package no commit hash occurs
\* twice: a commit with several reasons has one entry that holds them all.
C19_OneEntryPerCommit ==
  LoopDone =>
    \A a, b \in 1..Len(commitsForPackage) :
      a # b => commitsForPackage[a].hash # commitsForPackage[b].hash


\* the orders a list of commits can be listed in
PermutationsOf(cs) ==
  {[i \in 1..Len(cs) |-> cs[f[i]]] :
     f \in {g \in [1..Len(cs) -> 1..Len(cs)] : \A i, j \in 1..Len(cs) : g[i] = g[j] => i = j}}

\* currentVersion, nextVersion and hasChanges of the version update of pkg
\* for the attributed commits
ResultOf(pkg, changes) ==
  LET update == VersionUpdateOf(pkg, changes)
  IN  <<update.currentVersion, update.nextVersion, update.hasChanges>>

\* C20: in whatever order the commits of the range of a package are listed,
\* the loop over them leads to the same currentVersion, nextVersion and
\* hasChanges of the package.
C20_OrderOfCommitsInsignificant ==
  LoopDone =>
    \A cs \in PermutationsOf(commits) :
      ResultOf(Pkg, AttributedFrom(Pkg, cs, config.nonScopeBehavior))
        = ResultOf(Pkg, commitsForPackage)


\* the version updates stored for the i-th configured package
UpdatesOf(i) == SelectSeq(versionUpdates, LAMBDA u : u.pkg = i)

\* the commits attributed to a package, from nothing but the package, the
\* commits of its range with their changed files, and nonScopeBehavior
OwnAttributed(pkg, commitRange) ==
  AttributedFrom(pkg, CommitsInRange(commitRange), config.nonScopeBehavior)

\* C21: at the end of a run the attributed commits and the version update of
\* every package are those computed from the package's own configuration, the
\* commits of its range and their changed files alone, whatever its place in
\* the configuration and whichever other packages are configured.
C21_PackagesProcessedIndependently ==
  pc \in {"output", "done"} =>
    \A i \in 1..Len(config.versionedPackages) :
      LET pkg == config.versionedPackages[i]
          own == OwnAttributed(pkg, RangeOfPackage(i))
      IN  /\ Len(SelectSeq(packageChanges, LAMBDA e : e.pkg = i)) = 1
          /\ AttributedTo(i) = own
          /\ UpdatesOf(i) =
               IF VersionUpdateOf(pkg, own).hasChanges
               THEN <<[pkg |-> i, update |-> VersionUpdateOf(pkg, own)]>>
               ELSE <<>>

\* a finished run of two packages, both with attributed commits of their own
\* that differ from each other's
C21_Witness ==
  /\ pc = "done"
  /\ Len(config.versionedPackages) = 2
  /\ AttributedTo(1) # <<>>
  /\ AttributedTo(2) # <<>>
  /\ AttributedTo(1) # AttributedTo(2)
  /\ Len(UpdatesOf(1)) = 1
  /\ Len(UpdatesOf(2)) = 1


\* the messages of attributed commits, as checkVersions hands them to
\* determineVersionChange
MessagesOf(changes) == [c \in 1..Len(changes) |-> changes[c].message]

\* C24: when the list attributed to a package whose current version is a
\* triad holds a commit with breaking = true and the reason "Major version
\* bump", determineVersionChange sets major for the list and the next version
\* is the major bump of the current version.
C24_BreakingEntryIsMajorBump ==
  (/\ LoopDone
   /\ VersionNumbers(getCurrentVersion(Pkg.tagPrefix)) # <<>>
   /\ \E k \in 1..Len(commitsForPackage) :
        /\ commitsForPackage[k].breaking
        /\ commitsForPackage[k].reasons = <<MajorReason>>)
    => LET update == VersionUpdateOf(Pkg, commitsForPackage)
           cur == VersionNumbers(update.currentVersion)
       IN  /\ determineVersionChange(MessagesOf(commitsForPackage)).major
           /\ VersionNumbers(update.nextVersion) = <<cur[1] + 1, 0, 0>>

\* the reference aggregator: the entries of the passes over all the commits,
\* none of them ending the loop
RECURSIVE AttributedFromAll(_, _, _)
AttributedFromAll(pkg, cs, nonScopeBehavior) ==
  IF cs = <<>> THEN <<>>
  ELSE AnalyzeCommitFor(pkg, Head(cs), nonScopeBehavior).push
         \o AttributedFromAll(pkg, Tail(cs), nonScopeBehavior)

\* C25: the next version and hasChanges of a package are those of the
\* reference aggregator that goes on after a commit taken for major.
C25_BreakChangesNoVersion ==
  LoopDone =>
    LET own == VersionUpdateOf(Pkg, commitsForPackage)
        all == VersionUpdateOf(Pkg, AttributedFromAll(Pkg, commits, config.nonScopeBehavior))
    IN  /\ own.nextVersion = all.nextVersion
        /\ own.hasChanges = all.hasChanges

\* C26: before the output, a package whose current version is a triad has a
\* version update (with hasChanges and a next version different from the
\* current one) exactly when commits were attributed to it, and each of its
\* attributed commits sets a flag of determineVersionChange on its own.
C26_UpdateIffAttributed ==
  pc = "output" =>
    \A i \in 1..Len(config.versionedPackages) :
      VersionNumbers(getCurrentVersion(config.versionedPackages[i].tagPrefix)) # <<>> =>
        /\ (AttributedTo(i) # <<>>) <=>
             (/\ Len(UpdatesOf(i)) = 1
              /\ UpdatesOf(i)[1].update.hasChanges
              /\ UpdatesOf(i)[1].update.nextVersion # UpdatesOf(i)[1].update.currentVersion)
        /\ \A k \in 1..Len(AttributedTo(i)) :
             determineVersionChange(<<AttributedTo(i)[k].message>>) # NoChanges

\* C27: the tag found for the package, the tag its commit range is resolved
\* from again, and the tag its current version is derived from are one tag.
C27_OneTagPerPackage ==
  LoopDone =>
    /\ getLastTag(IF lastTag # "" THEN lastTag ELSE "HEAD") = lastTag
    /\ getLastTag(Pkg.tagPrefix) = lastTag


\* the end of the package loop of a run of two packages with well-formed
\* current versions: the first has attributed commits and a version update,
\* the second has neither
C26_Witness ==
  /\ pc = "output"
  /\ Len(config.versionedPackages) = 2
  /\ \A i \in 1..2 :
       VersionNumbers(getCurrentVersion(config.versionedPackages[i].tagPrefix)) # <<>>
  /\ AttributedTo(1) # <<>>
  /\ Len(UpdatesOf(1)) = 1
  /\ UpdatesOf(1)[1].update.nextVersion # UpdatesOf(1)[1].update.currentVersion
  /\ AttributedTo(2) = <<>>
  /\ UpdatesOf(2) = <<>>


\* C30: every git push of the commands of a call follows the git tag of the
\* same tag, and that git tag did not fail.
C30_PushOnlyAfterCreation ==
  \A k \in 1..Len(tagCommands) :
    tagCommands[k].command = GitPush =>
      /\ k > 1
      /\ tagCommands[k - 1].command = GitTag
      /\ tagCommands[k - 1].tag = tagCommands[k].tag
      /\ ~tagCommands[k - 1].failed


\* the git commands of the last output, each as command and tag
CommandsRun == [k \in 1..Len(tagCommands) |-> <<tagCommands[k].command, tagCommands[k].tag>>]

\* for every version update in order: git tag of tagPrefix + nextVersion,
\* followed by its git push if pushed
RECURSIVE CommandsForUpdates(_, _)
CommandsForUpdates(updates, pushed) ==
  IF updates = <<>> THEN <<>>
  ELSE LET newTag == Head(updates).update.tagPrefix \o Head(updates).update.nextVersion
       IN  (IF pushed THEN <<<<GitTag, newTag>>, <<GitPush, newTag>>>>
                      ELSE <<<<GitTag, newTag>>>>)
             \o CommandsForUpdates(Tail(updates), pushed)

\* the textual output of a call with at least one version update has returned
\* or has ended the process
CliOutputEnded == pc \in {"done", "exited"} /\ ~jsonOutput /\ versionUpdates # <<>>

\* C22: after the textual output of a call with version updates: under
\* createTags no key was read and git tag and git push ran for the tag of
\* every version update; otherwise exactly one key was read, and on the answer
\* y or Enter (the key as prompt returns it, in lower case) git tag and git
\* push ran for every such tag, on c git tag ran for every such tag and no
\* git push, and on any other key no command ran and no tag was added.
C22_TagsOnOptionOrAnswer ==
  /\ (CliOutputEnded /\ cliOptions.createTags) =>
       /\ keysRead = <<>>
       /\ CommandsRun = CommandsForUpdates(versionUpdates, TRUE)
  /\ (CliOutputEnded /\ ~cliOptions.createTags) =>
       /\ Len(keysRead) = 1
       /\ ToLowerCase(keysRead[1]) \in {"y", "\r", "\n"} =>
            CommandsRun = CommandsForUpdates(versionUpdates, TRUE)
       /\ ToLowerCase(keysRead[1]) = "c" =>
            CommandsRun = CommandsForUpdates(versionUpdates, FALSE)
       /\ ToLowerCase(keysRead[1]) \notin {"y", "\r", "\n", "c"} =>
            CommandsRun = <<>>
  /\ (CliOutputEnded /\ CommandsRun # <<>>) =>
       \A u \in 1..Len(versionUpdates) :
         TagExists(tags, TagOfUpdate(versionUpdates[u].update))

\* the answer c after a summary of two version updates: two tags created,
\* none pushed
C22_Witness ==
  /\ CliOutputEnded
  /\ ~cliOptions.createTags
  /\ keysRead \in {<<"c">>, <<"C">>}
  /\ Len(versionUpdates) = 2
  /\ Len(tagCommands) = 2
  /\ \A k \in 1..2 : tagCommands[k].command = GitTag /\ ~tagCommands[k].failed

\* C23: after an output in JSON mode or without version updates no key was
\* read, no git command ran and no tag was added; every git command of an
\* output is for the tag of an entry of versionUpdates, named by the tag
\* prefix of the entry's package followed by the entry's nextVersion.
C23_NoTagsWithoutCliUpdates ==
  /\ [](pc = "done" =>
          /\ (jsonOutput \/ versionUpdates = <<>>) => keysRead = <<>> /\ tagCommands = <<>>
          /\ \A k \in 1..Len(tagCommands) :
               \E u \in 1..Len(versionUpdates) :
                 tagCommands[k].tag =
                   config.versionedPackages[versionUpdates[u].pkg].tagPrefix
                     \o versionUpdates[u].update.nextVersion)
  /\ [][(pc = "output" /\ (jsonOutput \/ versionUpdates = <<>>)) => tags' = tags]_vars

\* an output in JSON mode of a call with a version update, under createTags:
\* the object is printed, no key is read and no command runs
C23_Witness ==
  /\ JsonDone
  /\ cliOptions.createTags
  /\ versionUpdates # <<>>
  /\ keysRead = <<>>
  /\ tagCommands = <<>>


\* did the output of the call before add no tag to the repository?
NoTagAddedBefore ==
  \A k \in 1..Len(previousCall.tagCommands) :
    previousCall.tagCommands[k].command = GitTag => previousCall.tagCommands[k].failed

\* C28: a call of checkVersions starts its package loop with empty maps; at
\* the end of a further call every entry of the maps is of a package of the
\* configuration of this call, one entry of packageChanges per package in the
\* order of the configuration; and when neither the configuration file nor
\* the tags have changed since the call before, the maps are those the call
\* before ended with.
C28_FurtherCallStartsAfresh ==
  /\ (pc = "package" /\ pkgIdx = 1) => packageChanges = <<>> /\ versionUpdates = <<>>
  /\ (pc \in {"output", "done"} /\ calls >= 1) =>
       /\ Len(packageChanges) = Len(config.versionedPackages)
       /\ \A e \in 1..Len(packageChanges) : packageChanges[e].pkg = e
       /\ \A u \in 1..Len(versionUpdates) :
            /\ versionUpdates[u].pkg \in 1..Len(config.versionedPackages)
            /\ \A w \in 1..Len(versionUpdates) :
                 versionUpdates[u].pkg = versionUpdates[w].pkg => u = w
       /\ (configFile = previousCall.configFile /\ NoTagAddedBefore) =>
            /\ packageChanges = previousCall.packageChanges
            /\ versionUpdates = previousCall.versionUpdates

\* the end of a further call on a configuration that lost its first package:
\* the call before had two version updates, this one has the one of the
\* package that is left
C28_Witness ==
  /\ pc = "done"
  /\ calls = 1
  /\ Len(previousCall.versionUpdates) = 2
  /\ NoTagAddedBefore
  /\ Len(previousCall.configFile.versionedPackages) = 2
  /\ config.versionedPackages = Tail(previousCall.configFile.versionedPackages)
  /\ Len(packageChanges) = 1
  /\ Len(versionUpdates) = 1
  /\ versionUpdates[1].update = previousCall.versionUpdates[2].update

\* did the output of the call before create, with success, the tag of every
\* one of its version updates?
AllTagsCreatedBefore ==
  /\ previousCall.versionUpdates # <<>>
  /\ \A u \in 1..Len(previousCall.versionUpdates) :
       \E k \in 1..Len(previousCall.tagCommands) :
         /\ previousCall.tagCommands[k].command = GitTag
         /\ previousCall.tagCommands[k].tag = TagOfUpdate(previousCall.versionUpdates[u].update)
         /\ ~previousCall.tagCommands[k].failed

\* C29: at the end of a call on the same configuration and commits that
\* follows a call whose output created the tag of each of its version
\* updates, there is no version update, and the current version of every
\* package that had one is the next version of the call before.
C29_NothingLeftAfterTagging ==
  (/\ pc \in {"output", "done"}
   /\ calls >= 1
   /\ configFile = previousCall.configFile
   /\ AllTagsCreatedBefore)
    => /\ versionUpdates = <<>>
       /\ \A u \in 1..Len(previousCall.versionUpdates) :
            getCurrentVersion(config.versionedPackages[previousCall.versionUpdates[u].pkg].tagPrefix)
              = previousCall.versionUpdates[u].update.nextVersion

====
